---- MODULE Spec2Model ----
(***************************************************************************)
(* Model of the c3dpw quote API: the upload serializer                     *)
(* (quote/serializers.py), the two POST views (quote/views.py) and the     *)
(* quote engine (quote/utils/quote_engine.py).                             *)
(*                                                                         *)
(* Numbers.  Python floats are modelled bit for bit as IEEE 754 binary64   *)
(* values (sign, odd mantissa, binary exponent), every operation rounded   *)
(* as the hardware rounds it, so that round() sees the same binary value   *)
(* as in the program.  Inputs and rounded results are integers in the      *)
(* unit the program rounds to: layer height supplied in hundredths of a    *)
(* millimetre (0.20 mm is 20) and echoed in thousandths, mesh volume in    *)
(* whole mm^3, money results in cents, hours results in hundredths of an   *)
(* hour, grams results in tenths of a gram, discounts in percent.          *)
(* File names are sequences of Unicode code points.                        *)
(***************************************************************************)
EXTENDS Integers, Sequences, FiniteSets, TLC

VARIABLES pc, req, env, tmpExists, engineIn, engineOut, resp

vars == <<pc, req, env, tmpExists, engineIn, engineOut, resp>>

\* ------------------------------------------------------------ bounds

\* Mesh volumes are drawn up to just under this magnitude, in cm^3.
MaxVolCm3 == 100

\* Longest configured tier list / discount list drawn.
MaxTiers == 5

\* ------------------------------------------- natural numbers of any size

\* A natural number is a sequence of limbs in base 2^14, the least
\* significant first and the most significant non-zero; zero is <<>>.
Limb == 128 * 128

LimbBits == 7 + 7

Abs(x) == IF x < 0 THEN -x ELSE x

Min(a, b) == IF a < b THEN a ELSE b

RECURSIVE Trim(_)
Trim(a) ==
    IF a = <<>> THEN a
    ELSE IF a[Len(a)] = 0 THEN Trim(SubSeq(a, 1, Len(a) - 1))
    ELSE a

RECURSIVE BigOf(_)
BigOf(n) == IF n = 0 THEN <<>> ELSE <<n % Limb>> \o BigOf(n \div Limb)

RECURSIVE IntOf(_)
IntOf(a) == IF a = <<>> THEN 0 ELSE a[1] + Limb * IntOf(Tail(a))

Digit(a, i) == IF i <= Len(a) THEN a[i] ELSE 0

RECURSIVE AddFrom(_, _, _, _)
AddFrom(a, b, i, carry) ==
    IF i > Len(a) /\ i > Len(b)
    THEN IF carry = 0 THEN <<>> ELSE <<carry>>
    ELSE LET s == Digit(a, i) + Digit(b, i) + carry
         IN  <<s % Limb>> \o AddFrom(a, b, i + 1, s \div Limb)

BigAdd(a, b) == AddFrom(a, b, 1, 0)

RECURSIVE SubFrom(_, _, _, _)
SubFrom(a, b, i, borrow) ==
    IF i > Len(a) THEN <<>>
    ELSE LET s == a[i] - Digit(b, i) - borrow
         IN  IF s < 0 THEN <<s + Limb>> \o SubFrom(a, b, i + 1, 1)
             ELSE <<s>> \o SubFrom(a, b, i + 1, 0)

\* a - b for a >= b.
BigSub(a, b) == Trim(SubFrom(a, b, 1, 0))

RECURSIVE LessFrom(_, _, _)
LessFrom(a, b, i) ==
    IF i = 0 THEN FALSE
    ELSE IF a[i] # b[i] THEN a[i] < b[i]
    ELSE LessFrom(a, b, i - 1)

BigLess(a, b) ==
    IF Len(a) # Len(b) THEN Len(a) < Len(b) ELSE LessFrom(a, b, Len(a))

RECURSIVE MulSmallFrom(_, _, _, _)
MulSmallFrom(a, k, i, carry) ==
    IF i > Len(a)
    THEN IF carry = 0 THEN <<>> ELSE <<carry>>
    ELSE LET s == a[i] * k + carry
         IN  <<s % Limb>> \o MulSmallFrom(a, k, i + 1, s \div Limb)

\* a * k for 0 <= k < 2^16.
BigMulSmall(a, k) == IF k = 0 THEN <<>> ELSE MulSmallFrom(a, k, 1, 0)

\* a * Limb
ShiftLimb(a) == IF a = <<>> THEN a ELSE <<0>> \o a

RECURSIVE BigMul(_, _)
BigMul(a, b) ==
    IF a = <<>> \/ b = <<>> THEN <<>>
    ELSE BigAdd(BigMulSmall(a, b[1]), ShiftLimb(BigMul(a, Tail(b))))

\* a * 2^k
BigShl(a, k) ==
    IF a = <<>> THEN a
    ELSE [i \in 1..(k \div LimbBits) |-> 0] \o BigMulSmall(a, 2 ^ (k % LimbBits))

\* a \div 2^k
BigShr(a, k) ==
    LET q == k \div LimbBits
        p == 2 ^ (k % LimbBits)
    IN  IF q >= Len(a) THEN <<>>
        ELSE Trim([i \in 1..(Len(a) - q) |->
                      (a[q + i] \div p) + (Digit(a, q + i + 1) % p) * (Limb \div p)])

\* a % 2^k
BigLow(a, k) ==
    LET q == k \div LimbBits
        p == 2 ^ (k % LimbBits)
    IN  IF q >= Len(a) THEN a
        ELSE Trim([i \in 1..(q + 1) |-> IF i <= q THEN a[i] ELSE a[i] % p])

RECURSIVE BitLenSmall(_)
BitLenSmall(n) == IF n = 0 THEN 0 ELSE 1 + BitLenSmall(n \div 2)

\* The number of binary digits of a.
BitLen(a) ==
    IF a = <<>> THEN 0 ELSE LimbBits * (Len(a) - 1) + BitLenSmall(a[Len(a)])

\* The quotient q of a division by 2 * half with remainder r, rounded to the
\* nearest integer, a tie to the even one.
NearestEven(q, r, half) ==
    IF BigLess(half, r) \/ (r = half /\ Digit(q, 1) % 2 = 1) THEN BigAdd(q, <<1>>) ELSE q

\* a / 2^k rounded to the nearest integer, a tie to the even one.
BigShrNearestEven(a, k) ==
    IF k = 0 THEN a
    ELSE NearestEven(BigShr(a, k), BigLow(a, k), BigShl(<<1>>, k - 1))

\* --------------------------------------------- binary64 floats
\*
\* A Python float is <<s, m, e>>: its value is s * m * 2^e with s the sign
\* (1 or -1), m an odd natural number below 2^53 and e an integer; 0.0 is
\* <<0, <<>>, 0>>.  Every operation computes the exact result and rounds it
\* to 53 significant bits, a tie to the even mantissa, as IEEE 754 binary64
\* arithmetic does.  Infinities, NaN, subnormal numbers and the sign of zero
\* are left out: no value of the program comes near them.
Mantissa == 53

Zero == <<0, <<>>, 0>>

RECURSIVE TrailingZeros(_)
TrailingZeros(n) == IF n % 2 = 1 THEN 0 ELSE 1 + TrailingZeros(n \div 2)

\* s * m * 2^e with the mantissa made odd.
RECURSIVE Canon(_, _, _)
Canon(s, m, e) ==
    IF m[1] = 0 THEN Canon(s, Tail(m), e + LimbBits)
    ELSE LET t == TrailingZeros(m[1])
         IN  <<s, BigShr(m, t), e + t>>

\* The number of bits by which n exceeds a mantissa.
Excess(n) == LET k == BitLen(n) - Mantissa IN IF k > 0 THEN k ELSE 0

\* The float nearest to s * n * 2^e, for a natural number n.
Fl(s, n, e) ==
    IF n = <<>> THEN Zero
    ELSE LET k == Excess(n) IN Canon(s, BigShrNearestEven(n, k), e + k)

\* float(n) for an integer n
FInt(n) == IF n = 0 THEN Zero ELSE Canon(IF n < 0 THEN -1 ELSE 1, BigOf(Abs(n)), 0)

FNeg(a) == <<-a[1], a[2], a[3]>>

FMul(a, b) ==
    IF a[1] = 0 \/ b[1] = 0 THEN Zero
    ELSE Fl(a[1] * b[1], BigMul(a[2], b[2]), a[3] + b[3])

\* sa * x * 2^e + sb * y * 2^e for natural numbers x, y > 0.
AddAligned(sa, x, sb, y, e) ==
    IF sa # sb /\ x = y THEN Zero
    ELSE Fl(IF sa = sb \/ BigLess(y, x) THEN sa ELSE sb,
            IF sa = sb THEN BigAdd(x, y)
            ELSE IF BigLess(y, x) THEN BigSub(x, y) ELSE BigSub(y, x),
            e)

FAdd(a, b) ==
    IF a[1] = 0 THEN b
    ELSE IF b[1] = 0 THEN a
    ELSE LET e == Min(a[3], b[3])
         IN  AddAligned(a[1], BigShl(a[2], a[3] - e), b[1], BigShl(b[2], b[3] - e), e)

FSub(a, b) == FAdd(a, FNeg(b))

\* r - q * d brought below d by raising q: <<quotient limb, remainder>>.
RECURSIVE DivCorrect(_, _, _)
DivCorrect(r, d, q) ==
    IF BigLess(r, d) THEN <<q, r>> ELSE DivCorrect(BigSub(r, d), d, q + 1)

\* The quotient limb of r by d estimated from below by their leading limbs.
Estimate(r, d) == (Digit(r, 5) * Limb + Digit(r, 4)) \div (d[4] + 1)

\* One limb of long division: <<r \div d, r % d>> for r < d * Limb and d of
\* exactly 56 bits.
DivLimb(r, d) ==
    LET q == Estimate(r, d) IN DivCorrect(BigSub(r, BigMulSmall(d, q)), d, q)

\* The quotient limbs acc (the least significant first) with the limb g[1]
\* of a further step added, and that step's remainder g[2].
DivStep(acc, g) == <<<<g[1]>> \o acc, g[2]>>

\* n further limbs of a long division by d that has reached g = <<quotient
\* limbs, remainder>>.
RECURSIVE DivLimbs(_, _, _)
DivLimbs(g, d, n) ==
    IF n = 0 \/ g = <<>> THEN g ELSE DivLimbs(DivStep(g[1], DivLimb(ShiftLimb(g[2]), d)), d, n - 1)

\* <<(n * Limb^4) \div d, (n * Limb^4) % d>> for n and d of exactly 56 bits.
Quotient(n, d) == DivLimbs(DivStep(<<>>, DivLimb(n, d)), d, 4)

\* Division by a one-limb k, the limbs of n taken from limb i down with the
\* remainder r carried: <<quotient limbs before acc, remainder>>.
RECURSIVE ShortDivFrom(_, _, _, _, _)
ShortDivFrom(n, k, i, r, acc) ==
    IF i = 0 THEN <<acc, BigOf(r)>>
    ELSE LET s == r * Limb + n[i]
         IN  ShortDivFrom(n, k, i - 1, s % k, <<s \div k>> \o acc)

\* <<(n * Limb^2) \div k, (n * Limb^2) % k>> for n of exactly 56 bits and a
\* one-limb k.
ShortQuotient(n, k) == ShortDivFrom(<<0, 0>> \o n, k, Len(n) + 2, 0, <<>>)

\* The number of bits by which a mantissa is short of 56.
Pad(m) == 4 * LimbBits - BitLen(m)

\* The float nearest to s * (g[1] + a fraction) * 2^(e + 1), the fraction
\* being non-zero, and below one, exactly when the remainder g[2] is.
DivRound(s, g, e) ==
    Fl(s, BigAdd(BigMulSmall(Trim(g[1]), 2), IF g[2] = <<>> THEN <<>> ELSE <<1>>), e)

\* a / b for b # 0.  The mantissa of a is brought to 56 bits; a one-limb
\* mantissa of b divides it by short division to 28 fraction bits, a longer
\* one is brought to 56 bits too and divides it by long division to 56
\* fraction bits.  A sticky bit records a non-zero remainder, and the result
\* is rounded once.
FDiv(a, b) ==
    IF b[1] # 0 /\ a[1] = 0 THEN Zero
    ELSE IF Len(b[2]) = 1
    THEN DivRound(a[1] * b[1],
                  ShortQuotient(BigShl(a[2], Pad(a[2])), b[2][1]),
                  (a[3] - Pad(a[2])) - b[3] - (2 * LimbBits) - 1)
    ELSE DivRound(a[1] * b[1],
                  Quotient(BigShl(a[2], Pad(a[2])), BigShl(b[2], Pad(b[2]))),
                  (a[3] - Pad(a[2])) - (b[3] - Pad(b[2])) - (4 * LimbBits) - 1)

\* The float a decimal literal n/d denotes (n, d integers, d # 0): the one
\* nearest to n/d.
Float(n, d) == FDiv(FInt(n), FInt(d))

\* The position of the leading bit of a # 0.
Top(a) == BitLen(a[2]) + a[3]

\* |a| < |b| for a, b # 0: by the position of the leading bit, then by the
\* mantissas brought to the same exponent.
MagLess(a, b) ==
    IF Top(a) # Top(b) THEN Top(a) < Top(b)
    ELSE BigLess(BigShl(a[2], a[3] - Min(a[3], b[3])), BigShl(b[2], b[3] - Min(a[3], b[3])))

FLess(a, b) ==
    IF a[1] # b[1] THEN a[1] < b[1]
    ELSE IF a[1] = 0 THEN FALSE
    ELSE MagLess(IF a[1] = 1 THEN a ELSE b, IF a[1] = 1 THEN b ELSE a)

\* max(a, b) and min(a, b) of Python: the first argument unless the second
\* is greater (smaller).
FMax(a, b) == IF FLess(a, b) THEN b ELSE a

FMin(a, b) == IF FLess(b, a) THEN b ELSE a

\* The integer s * n * 2^e rounded to, for a natural number n > 0.
RoundScaled(s, n, e) ==
    IF e >= 0 THEN s * IntOf(BigShl(n, e)) ELSE s * IntOf(BigShrNearestEven(n, -e))

\* round(x, k) for k decimals, as the integer number of units of 10^-k
\* (scale = 10^k <= 1000): the decimal nearest to the float's exact binary
\* value, a tie to the even one.
RoundTo(a, scale) ==
    IF a[1] = 0 THEN 0 ELSE RoundScaled(a[1], BigMulSmall(a[2], scale), a[3])

\* ----------------------------------------------------- file names
\*
\* A Python str is the sequence of its Unicode code points: "a.stl" is
\* <<97, 46, 115, 116, 108>>.

\* "."
Dot == 46

\* "/", os.sep
Slash == 47

\* file_obj has no attribute `name` (no code point is negative).
NoName == <<-1>>

\* The rows <<first, last, step, delta>> of the Unicode character database:
\* the code points first, first + step, ..., last, that are not ASCII, have the
\* one-character lower case c + delta.
LowerRanges ==
    <<<<192, 214, 1, 32>>, <<216, 222, 1, 32>>, <<256, 302, 2, 1>>, <<306, 310, 2, 1>>, <<313, 327, 2, 1>>,
      <<330, 374, 2, 1>>, <<376, 376, 1, -121>>, <<377, 381, 2, 1>>, <<385, 385, 1, 210>>, <<386, 388, 2, 1>>,
      <<390, 390, 1, 206>>, <<391, 391, 1, 1>>, <<393, 394, 1, 205>>, <<395, 395, 1, 1>>, <<398, 398, 1, 79>>,
      <<399, 399, 1, 202>>, <<400, 400, 1, 203>>, <<401, 401, 1, 1>>, <<403, 403, 1, 205>>, <<404, 404, 1, 207>>,
      <<406, 406, 1, 211>>, <<407, 407, 1, 209>>, <<408, 408, 1, 1>>, <<412, 412, 1, 211>>, <<413, 413, 1, 213>>,
      <<415, 415, 1, 214>>, <<416, 420, 2, 1>>, <<422, 422, 1, 218>>, <<423, 423, 1, 1>>, <<425, 425, 1, 218>>,
      <<428, 428, 1, 1>>, <<430, 430, 1, 218>>, <<431, 431, 1, 1>>, <<433, 434, 1, 217>>, <<435, 437, 2, 1>>,
      <<439, 439, 1, 219>>, <<440, 440, 1, 1>>, <<444, 444, 1, 1>>, <<452, 452, 1, 2>>, <<453, 453, 1, 1>>,
      <<455, 455, 1, 2>>, <<456, 456, 1, 1>>, <<458, 458, 1, 2>>, <<459, 475, 2, 1>>, <<478, 494, 2, 1>>,
      <<497, 497, 1, 2>>, <<498, 500, 2, 1>>, <<502, 502, 1, -97>>, <<503, 503, 1, -56>>, <<504, 542, 2, 1>>,
      <<544, 544, 1, -130>>, <<546, 562, 2, 1>>, <<570, 570, 1, 10795>>, <<571, 571, 1, 1>>, <<573, 573, 1, -163>>,
      <<574, 574, 1, 10792>>, <<577, 577, 1, 1>>, <<579, 579, 1, -195>>, <<580, 580, 1, 69>>, <<581, 581, 1, 71>>,
      <<582, 590, 2, 1>>, <<880, 882, 2, 1>>, <<886, 886, 1, 1>>, <<895, 895, 1, 116>>, <<902, 902, 1, 38>>,
      <<904, 906, 1, 37>>, <<908, 908, 1, 64>>, <<910, 911, 1, 63>>, <<913, 929, 1, 32>>, <<931, 939, 1, 32>>,
      <<975, 975, 1, 8>>, <<984, 1006, 2, 1>>, <<1012, 1012, 1, -60>>, <<1015, 1015, 1, 1>>, <<1017, 1017, 1, -7>>,
      <<1018, 1018, 1, 1>>, <<1021, 1023, 1, -130>>, <<1024, 1039, 1, 80>>, <<1040, 1071, 1, 32>>, <<1120, 1152, 2, 1>>,
      <<1162, 1214, 2, 1>>, <<1216, 1216, 1, 15>>, <<1217, 1229, 2, 1>>, <<1232, 1326, 2, 1>>, <<1329, 1366, 1, 48>>,
      <<4256, 4293, 1, 7264>>, <<4295, 4295, 1, 7264>>, <<4301, 4301, 1, 7264>>, <<5024, 5103, 1, 38864>>, <<5104, 5109, 1, 8>>,
      <<7312, 7354, 1, -3008>>, <<7357, 7359, 1, -3008>>, <<7680, 7828, 2, 1>>, <<7838, 7838, 1, -7615>>, <<7840, 7934, 2, 1>>,
      <<7944, 7951, 1, -8>>, <<7960, 7965, 1, -8>>, <<7976, 7983, 1, -8>>, <<7992, 7999, 1, -8>>, <<8008, 8013, 1, -8>>,
      <<8025, 8031, 2, -8>>, <<8040, 8047, 1, -8>>, <<8072, 8079, 1, -8>>, <<8088, 8095, 1, -8>>, <<8104, 8111, 1, -8>>,
      <<8120, 8121, 1, -8>>, <<8122, 8123, 1, -74>>, <<8124, 8124, 1, -9>>, <<8136, 8139, 1, -86>>, <<8140, 8140, 1, -9>>,
      <<8152, 8153, 1, -8>>, <<8154, 8155, 1, -100>>, <<8168, 8169, 1, -8>>, <<8170, 8171, 1, -112>>, <<8172, 8172, 1, -7>>,
      <<8184, 8185, 1, -128>>, <<8186, 8187, 1, -126>>, <<8188, 8188, 1, -9>>, <<8486, 8486, 1, -7517>>, <<8490, 8490, 1, -8383>>,
      <<8491, 8491, 1, -8262>>, <<8498, 8498, 1, 28>>, <<8544, 8559, 1, 16>>, <<8579, 8579, 1, 1>>, <<9398, 9423, 1, 26>>,
      <<11264, 11311, 1, 48>>, <<11360, 11360, 1, 1>>, <<11362, 11362, 1, -10743>>, <<11363, 11363, 1, -3814>>, <<11364, 11364, 1, -10727>>,
      <<11367, 11371, 2, 1>>, <<11373, 11373, 1, -10780>>, <<11374, 11374, 1, -10749>>, <<11375, 11375, 1, -10783>>, <<11376, 11376, 1, -10782>>,
      <<11378, 11378, 1, 1>>, <<11381, 11381, 1, 1>>, <<11390, 11391, 1, -10815>>, <<11392, 11490, 2, 1>>, <<11499, 11501, 2, 1>>,
      <<11506, 11506, 1, 1>>, <<42560, 42604, 2, 1>>, <<42624, 42650, 2, 1>>, <<42786, 42798, 2, 1>>, <<42802, 42862, 2, 1>>,
      <<42873, 42875, 2, 1>>, <<42877, 42877, 1, -35332>>, <<42878, 42886, 2, 1>>, <<42891, 42891, 1, 1>>, <<42893, 42893, 1, -42280>>,
      <<42896, 42898, 2, 1>>, <<42902, 42920, 2, 1>>, <<42922, 42922, 1, -42308>>, <<42923, 42923, 1, -42319>>, <<42924, 42924, 1, -42315>>,
      <<42925, 42925, 1, -42305>>, <<42926, 42926, 1, -42308>>, <<42928, 42928, 1, -42258>>, <<42929, 42929, 1, -42282>>, <<42930, 42930, 1, -42261>>,
      <<42931, 42931, 1, 928>>, <<42932, 42946, 2, 1>>, <<42948, 42948, 1, -48>>, <<42949, 42949, 1, -42307>>, <<42950, 42950, 1, -35384>>,
      <<42951, 42953, 2, 1>>, <<42960, 42960, 1, 1>>, <<42966, 42968, 2, 1>>, <<42997, 42997, 1, 1>>, <<65313, 65338, 1, 32>>,
      <<66560, 66599, 1, 40>>, <<66736, 66771, 1, 40>>, <<66928, 66938, 1, 39>>, <<66940, 66954, 1, 39>>, <<66956, 66962, 1, 39>>,
      <<66964, 66965, 1, 39>>, <<68736, 68786, 1, 64>>, <<71840, 71871, 1, 32>>, <<93760, 93791, 1, 32>>, <<125184, 125217, 1, 34>>>>

\* The code point ranges <<first, last>> of the database that are cased
\* (upper, lower or title case letters) and not case-ignorable.
CasedRanges ==
    <<<<65, 90>>, <<97, 122>>, <<170, 170>>, <<181, 181>>, <<186, 186>>, <<192, 214>>, <<216, 246>>,
      <<248, 442>>, <<444, 447>>, <<452, 659>>, <<661, 687>>, <<880, 883>>, <<886, 887>>, <<891, 893>>,
      <<895, 895>>, <<902, 902>>, <<904, 906>>, <<908, 908>>, <<910, 929>>, <<931, 1013>>, <<1015, 1153>>,
      <<1162, 1327>>, <<1329, 1366>>, <<1376, 1416>>, <<4256, 4293>>, <<4295, 4295>>, <<4301, 4301>>, <<4304, 4346>>,
      <<4349, 4351>>, <<5024, 5109>>, <<5112, 5117>>, <<7296, 7304>>, <<7312, 7354>>, <<7357, 7359>>, <<7424, 7467>>,
      <<7531, 7543>>, <<7545, 7578>>, <<7680, 7957>>, <<7960, 7965>>, <<7968, 8005>>, <<8008, 8013>>, <<8016, 8023>>,
      <<8025, 8025>>, <<8027, 8027>>, <<8029, 8029>>, <<8031, 8061>>, <<8064, 8116>>, <<8118, 8124>>, <<8126, 8126>>,
      <<8130, 8132>>, <<8134, 8140>>, <<8144, 8147>>, <<8150, 8155>>, <<8160, 8172>>, <<8178, 8180>>, <<8182, 8188>>,
      <<8450, 8450>>, <<8455, 8455>>, <<8458, 8467>>, <<8469, 8469>>, <<8473, 8477>>, <<8484, 8484>>, <<8486, 8486>>,
      <<8488, 8488>>, <<8490, 8493>>, <<8495, 8500>>, <<8505, 8505>>, <<8508, 8511>>, <<8517, 8521>>, <<8526, 8526>>,
      <<8544, 8575>>, <<8579, 8580>>, <<9398, 9449>>, <<11264, 11387>>, <<11390, 11492>>, <<11499, 11502>>, <<11506, 11507>>,
      <<11520, 11557>>, <<11559, 11559>>, <<11565, 11565>>, <<42560, 42605>>, <<42624, 42651>>, <<42786, 42863>>, <<42865, 42887>>,
      <<42891, 42894>>, <<42896, 42954>>, <<42960, 42961>>, <<42963, 42963>>, <<42965, 42969>>, <<42997, 42998>>, <<43002, 43002>>,
      <<43824, 43866>>, <<43872, 43880>>, <<43888, 43967>>, <<64256, 64262>>, <<64275, 64279>>, <<65313, 65338>>, <<65345, 65370>>,
      <<66560, 66639>>, <<66736, 66771>>, <<66776, 66811>>, <<66928, 66938>>, <<66940, 66954>>, <<66956, 66962>>, <<66964, 66965>>,
      <<66967, 66977>>, <<66979, 66993>>, <<66995, 67001>>, <<67003, 67004>>, <<68736, 68786>>, <<68800, 68850>>, <<71840, 71903>>,
      <<93760, 93823>>, <<119808, 119892>>, <<119894, 119964>>, <<119966, 119967>>, <<119970, 119970>>, <<119973, 119974>>, <<119977, 119980>>,
      <<119982, 119993>>, <<119995, 119995>>, <<119997, 120003>>, <<120005, 120069>>, <<120071, 120074>>, <<120077, 120084>>, <<120086, 120092>>,
      <<120094, 120121>>, <<120123, 120126>>, <<120128, 120132>>, <<120134, 120134>>, <<120138, 120144>>, <<120146, 120485>>, <<120488, 120512>>,
      <<120514, 120538>>, <<120540, 120570>>, <<120572, 120596>>, <<120598, 120628>>, <<120630, 120654>>, <<120656, 120686>>, <<120688, 120712>>,
      <<120714, 120744>>, <<120746, 120770>>, <<120772, 120779>>, <<122624, 122633>>, <<122635, 122654>>, <<125184, 125251>>, <<127280, 127305>>,
      <<127312, 127337>>, <<127344, 127369>>>>

\* The code point ranges <<first, last>> of the database that are
\* case-ignorable (apostrophes, accents, combining marks, modifier letters).
CaseIgnorableRanges ==
    <<<<39, 39>>, <<46, 46>>, <<58, 58>>, <<94, 94>>, <<96, 96>>, <<168, 168>>, <<173, 173>>,
      <<175, 175>>, <<180, 180>>, <<183, 184>>, <<688, 879>>, <<884, 885>>, <<890, 890>>, <<900, 901>>,
      <<903, 903>>, <<1155, 1161>>, <<1369, 1369>>, <<1375, 1375>>, <<1425, 1469>>, <<1471, 1471>>, <<1473, 1474>>,
      <<1476, 1477>>, <<1479, 1479>>, <<1524, 1524>>, <<1536, 1541>>, <<1552, 1562>>, <<1564, 1564>>, <<1600, 1600>>,
      <<1611, 1631>>, <<1648, 1648>>, <<1750, 1757>>, <<1759, 1768>>, <<1770, 1773>>, <<1807, 1807>>, <<1809, 1809>>,
      <<1840, 1866>>, <<1958, 1968>>, <<2027, 2037>>, <<2042, 2042>>, <<2045, 2045>>, <<2070, 2093>>, <<2137, 2139>>,
      <<2184, 2184>>, <<2192, 2193>>, <<2200, 2207>>, <<2249, 2306>>, <<2362, 2362>>, <<2364, 2364>>, <<2369, 2376>>,
      <<2381, 2381>>, <<2385, 2391>>, <<2402, 2403>>, <<2417, 2417>>, <<2433, 2433>>, <<2492, 2492>>, <<2497, 2500>>,
      <<2509, 2509>>, <<2530, 2531>>, <<2558, 2558>>, <<2561, 2562>>, <<2620, 2620>>, <<2625, 2626>>, <<2631, 2632>>,
      <<2635, 2637>>, <<2641, 2641>>, <<2672, 2673>>, <<2677, 2677>>, <<2689, 2690>>, <<2748, 2748>>, <<2753, 2757>>,
      <<2759, 2760>>, <<2765, 2765>>, <<2786, 2787>>, <<2810, 2815>>, <<2817, 2817>>, <<2876, 2876>>, <<2879, 2879>>,
      <<2881, 2884>>, <<2893, 2893>>, <<2901, 2902>>, <<2914, 2915>>, <<2946, 2946>>, <<3008, 3008>>, <<3021, 3021>>,
      <<3072, 3072>>, <<3076, 3076>>, <<3132, 3132>>, <<3134, 3136>>, <<3142, 3144>>, <<3146, 3149>>, <<3157, 3158>>,
      <<3170, 3171>>, <<3201, 3201>>, <<3260, 3260>>, <<3263, 3263>>, <<3270, 3270>>, <<3276, 3277>>, <<3298, 3299>>,
      <<3328, 3329>>, <<3387, 3388>>, <<3393, 3396>>, <<3405, 3405>>, <<3426, 3427>>, <<3457, 3457>>, <<3530, 3530>>,
      <<3538, 3540>>, <<3542, 3542>>, <<3633, 3633>>, <<3636, 3642>>, <<3654, 3662>>, <<3761, 3761>>, <<3764, 3772>>,
      <<3782, 3782>>, <<3784, 3789>>, <<3864, 3865>>, <<3893, 3893>>, <<3895, 3895>>, <<3897, 3897>>, <<3953, 3966>>,
      <<3968, 3972>>, <<3974, 3975>>, <<3981, 3991>>, <<3993, 4028>>, <<4038, 4038>>, <<4141, 4144>>, <<4146, 4151>>,
      <<4153, 4154>>, <<4157, 4158>>, <<4184, 4185>>, <<4190, 4192>>, <<4209, 4212>>, <<4226, 4226>>, <<4229, 4230>>,
      <<4237, 4237>>, <<4253, 4253>>, <<4348, 4348>>, <<4957, 4959>>, <<5906, 5908>>, <<5938, 5939>>, <<5970, 5971>>,
      <<6002, 6003>>, <<6068, 6069>>, <<6071, 6077>>, <<6086, 6086>>, <<6089, 6099>>, <<6103, 6103>>, <<6109, 6109>>,
      <<6155, 6159>>, <<6211, 6211>>, <<6277, 6278>>, <<6313, 6313>>, <<6432, 6434>>, <<6439, 6440>>, <<6450, 6450>>,
      <<6457, 6459>>, <<6679, 6680>>, <<6683, 6683>>, <<6742, 6742>>, <<6744, 6750>>, <<6752, 6752>>, <<6754, 6754>>,
      <<6757, 6764>>, <<6771, 6780>>, <<6783, 6783>>, <<6823, 6823>>, <<6832, 6862>>, <<6912, 6915>>, <<6964, 6964>>,
      <<6966, 6970>>, <<6972, 6972>>, <<6978, 6978>>, <<7019, 7027>>, <<7040, 7041>>, <<7074, 7077>>, <<7080, 7081>>,
      <<7083, 7085>>, <<7142, 7142>>, <<7144, 7145>>, <<7149, 7149>>, <<7151, 7153>>, <<7212, 7219>>, <<7222, 7223>>,
      <<7288, 7293>>, <<7376, 7378>>, <<7380, 7392>>, <<7394, 7400>>, <<7405, 7405>>, <<7412, 7412>>, <<7416, 7417>>,
      <<7468, 7530>>, <<7544, 7544>>, <<7579, 7679>>, <<8125, 8125>>, <<8127, 8129>>, <<8141, 8143>>, <<8157, 8159>>,
      <<8173, 8175>>, <<8189, 8190>>, <<8203, 8207>>, <<8216, 8217>>, <<8228, 8228>>, <<8231, 8231>>, <<8234, 8238>>,
      <<8288, 8292>>, <<8294, 8303>>, <<8305, 8305>>, <<8319, 8319>>, <<8336, 8348>>, <<8400, 8432>>, <<11388, 11389>>,
      <<11503, 11505>>, <<11631, 11631>>, <<11647, 11647>>, <<11744, 11775>>, <<11823, 11823>>, <<12293, 12293>>, <<12330, 12333>>,
      <<12337, 12341>>, <<12347, 12347>>, <<12441, 12446>>, <<12540, 12542>>, <<40981, 40981>>, <<42232, 42237>>, <<42508, 42508>>,
      <<42607, 42610>>, <<42612, 42621>>, <<42623, 42623>>, <<42652, 42655>>, <<42736, 42737>>, <<42752, 42785>>, <<42864, 42864>>,
      <<42888, 42890>>, <<42994, 42996>>, <<43000, 43001>>, <<43010, 43010>>, <<43014, 43014>>, <<43019, 43019>>, <<43045, 43046>>,
      <<43052, 43052>>, <<43204, 43205>>, <<43232, 43249>>, <<43263, 43263>>, <<43302, 43309>>, <<43335, 43345>>, <<43392, 43394>>,
      <<43443, 43443>>, <<43446, 43449>>, <<43452, 43453>>, <<43471, 43471>>, <<43493, 43494>>, <<43561, 43566>>, <<43569, 43570>>,
      <<43573, 43574>>, <<43587, 43587>>, <<43596, 43596>>, <<43632, 43632>>, <<43644, 43644>>, <<43696, 43696>>, <<43698, 43700>>,
      <<43703, 43704>>, <<43710, 43711>>, <<43713, 43713>>, <<43741, 43741>>, <<43756, 43757>>, <<43763, 43764>>, <<43766, 43766>>,
      <<43867, 43871>>, <<43881, 43883>>, <<44005, 44005>>, <<44008, 44008>>, <<44013, 44013>>, <<64286, 64286>>, <<64434, 64450>>,
      <<65024, 65039>>, <<65043, 65043>>, <<65056, 65071>>, <<65106, 65106>>, <<65109, 65109>>, <<65279, 65279>>, <<65287, 65287>>,
      <<65294, 65294>>, <<65306, 65306>>, <<65342, 65342>>, <<65344, 65344>>, <<65392, 65392>>, <<65438, 65439>>, <<65507, 65507>>,
      <<65529, 65531>>, <<66045, 66045>>, <<66272, 66272>>, <<66422, 66426>>, <<67456, 67461>>, <<67463, 67504>>, <<67506, 67514>>,
      <<68097, 68099>>, <<68101, 68102>>, <<68108, 68111>>, <<68152, 68154>>, <<68159, 68159>>, <<68325, 68326>>, <<68900, 68903>>,
      <<69291, 69292>>, <<69446, 69456>>, <<69506, 69509>>, <<69633, 69633>>, <<69688, 69702>>, <<69744, 69744>>, <<69747, 69748>>,
      <<69759, 69761>>, <<69811, 69814>>, <<69817, 69818>>, <<69821, 69821>>, <<69826, 69826>>, <<69837, 69837>>, <<69888, 69890>>,
      <<69927, 69931>>, <<69933, 69940>>, <<70003, 70003>>, <<70016, 70017>>, <<70070, 70078>>, <<70089, 70092>>, <<70095, 70095>>,
      <<70191, 70193>>, <<70196, 70196>>, <<70198, 70199>>, <<70206, 70206>>, <<70367, 70367>>, <<70371, 70378>>, <<70400, 70401>>,
      <<70459, 70460>>, <<70464, 70464>>, <<70502, 70508>>, <<70512, 70516>>, <<70712, 70719>>, <<70722, 70724>>, <<70726, 70726>>,
      <<70750, 70750>>, <<70835, 70840>>, <<70842, 70842>>, <<70847, 70848>>, <<70850, 70851>>, <<71090, 71093>>, <<71100, 71101>>,
      <<71103, 71104>>, <<71132, 71133>>, <<71219, 71226>>, <<71229, 71229>>, <<71231, 71232>>, <<71339, 71339>>, <<71341, 71341>>,
      <<71344, 71349>>, <<71351, 71351>>, <<71453, 71455>>, <<71458, 71461>>, <<71463, 71467>>, <<71727, 71735>>, <<71737, 71738>>,
      <<71995, 71996>>, <<71998, 71998>>, <<72003, 72003>>, <<72148, 72151>>, <<72154, 72155>>, <<72160, 72160>>, <<72193, 72202>>,
      <<72243, 72248>>, <<72251, 72254>>, <<72263, 72263>>, <<72273, 72278>>, <<72281, 72283>>, <<72330, 72342>>, <<72344, 72345>>,
      <<72752, 72758>>, <<72760, 72765>>, <<72767, 72767>>, <<72850, 72871>>, <<72874, 72880>>, <<72882, 72883>>, <<72885, 72886>>,
      <<73009, 73014>>, <<73018, 73018>>, <<73020, 73021>>, <<73023, 73029>>, <<73031, 73031>>, <<73104, 73105>>, <<73109, 73109>>,
      <<73111, 73111>>, <<73459, 73460>>, <<78896, 78904>>, <<92912, 92916>>, <<92976, 92982>>, <<92992, 92995>>, <<94031, 94031>>,
      <<94095, 94111>>, <<94176, 94177>>, <<94179, 94180>>, <<110576, 110579>>, <<110581, 110587>>, <<110589, 110590>>, <<113821, 113822>>,
      <<113824, 113827>>, <<118528, 118573>>, <<118576, 118598>>, <<119143, 119145>>, <<119155, 119170>>, <<119173, 119179>>, <<119210, 119213>>,
      <<119362, 119364>>, <<121344, 121398>>, <<121403, 121452>>, <<121461, 121461>>, <<121476, 121476>>, <<121499, 121503>>, <<121505, 121519>>,
      <<122880, 122886>>, <<122888, 122904>>, <<122907, 122913>>, <<122915, 122916>>, <<122918, 122922>>, <<123184, 123197>>, <<123566, 123566>>,
      <<123628, 123631>>, <<125136, 125142>>, <<125252, 125259>>, <<127995, 127999>>, <<917505, 917505>>, <<917536, 917631>>, <<917760, 917999>>>>

InRanges(c, ranges) == \E i \in 1..Len(ranges) : ranges[i][1] <= c /\ c <= ranges[i][2]

\* The row of LowerRanges holding c, 0 when none does.
LowerRow(c) ==
    IF \E i \in 1..Len(LowerRanges) :
          /\ LowerRanges[i][1] <= c
          /\ c <= LowerRanges[i][2]
          /\ (c - LowerRanges[i][1]) % LowerRanges[i][3] = 0
    THEN CHOOSE i \in 1..Len(LowerRanges) :
          /\ LowerRanges[i][1] <= c
          /\ c <= LowerRanges[i][2]
          /\ (c - LowerRanges[i][1]) % LowerRanges[i][3] = 0
    ELSE 0

\* c + the delta of row i, c itself for no row.
Shifted(c, i) == IF i = 0 THEN c ELSE c + LowerRanges[i][4]

\* str.lower() of the one-character string c: A-Z and the upper and title
\* case letters of the other scripts go to lower case, capital I with dot
\* above (U+0130) to "i" and a combining dot, everything else stays.
Lower(c) ==
    IF c < 128 THEN <<IF 65 <= c /\ c <= 90 THEN c + 32 ELSE c>>
    ELSE IF c = 304 THEN <<105, 775>>
    ELSE <<Shifted(c, LowerRow(c))>>

\* A cased letter stands before position i of s, only case-ignorable
\* characters in between.
AfterCased(s, i) ==
    \E j \in 1..(i - 1) :
        /\ InRanges(s[j], CasedRanges)
        /\ \A k \in (j + 1)..(i - 1) : InRanges(s[k], CaseIgnorableRanges)

\* A cased letter stands after position i of s, only case-ignorable
\* characters in between.
BeforeCased(s, i) ==
    \E j \in (i + 1)..Len(s) :
        /\ InRanges(s[j], CasedRanges)
        /\ \A k \in (i + 1)..(j - 1) : InRanges(s[k], CaseIgnorableRanges)

\* The lower case of s[i] within s: a capital sigma (U+03A3) that ends a
\* word becomes the final sigma (U+03C2), every other character is
\* lower-cased by itself.
LowerAt(s, i) ==
    IF s[i] = 931 /\ AfterCased(s, i) /\ ~BeforeCased(s, i) THEN <<962>> ELSE Lower(s[i])

RECURSIVE LowerFrom(_, _)
LowerFrom(s, i) == IF i > Len(s) THEN <<>> ELSE LowerAt(s, i) \o LowerFrom(s, i + 1)

\* s.lower()
LowerSeq(s) == LowerFrom(s, 1)

\* Positions of "." in s.
Dots(s) == {i \in 1..Len(s) : s[i] = Dot}

LastDot(s) == CHOOSE i \in Dots(s) : \A j \in Dots(s) : j <= i

\* s.rfind(c) counted from 1, 0 when c does not occur.
LastIndex(s, c) ==
    IF \E i \in 1..Len(s) : s[i] = c
    THEN CHOOSE i \in 1..Len(s) : s[i] = c /\ \A j \in (i + 1)..Len(s) : s[j] # c
    ELSE 0

\* os.path.splitext(name)[1]: the text from the last dot of the last path
\* component on, unless that component has no dot or only dots lead up to it.
SplitExt(name) ==
    LET sepIndex == LastIndex(name, Slash)
        dotIndex == LastIndex(name, Dot)
    IN  IF dotIndex > sepIndex /\ \E j \in (sepIndex + 1)..(dotIndex - 1) : name[j] # Dot
        THEN SubSeq(name, dotIndex, Len(name))
        ELSE <<>>

\* os.path.basename(name): the text after the last "/".
Basename(name) == SubSeq(name, LastIndex(name, Slash) + 1, Len(name))

\* name.rsplit(".", 1)[-1]: the text after the last dot.
RSplitLast(name) == SubSeq(name, LastDot(name) + 1, Len(name))

\* -------------------------------------------------- pricing tables
\*
\* A float literal of a table is kept as written, the decimal <<n, d>> for
\* n/d; Decimal gives the float it denotes.
Decimal(literal) == Float(literal[1], literal[2])

Materials == {"PLA", "PLA+", "PETG", "Nylon", "CFNylon"}

MATERIAL_RATES ==
    [m \in Materials |->
        CASE m = "PLA" -> <<25, 1000>>
          [] m = "PLA+" -> <<28, 1000>>
          [] m = "PETG" -> <<30, 1000>>
          [] m = "Nylon" -> <<60, 1000>>
          [] m = "CFNylon" -> <<100, 1000>>]

DENSITY_G_CM3 ==
    [m \in Materials |->
        CASE m = "PLA" -> <<124, 100>>
          [] m = "PLA+" -> <<124, 100>>
          [] m = "PETG" -> <<127, 100>>
          [] m = "Nylon" -> <<115, 100>>
          [] m = "CFNylon" -> <<120, 100>>]

MATERIAL_PRESETS ==
    [m \in Materials |->
        CASE m = "PLA" -> [rec_layer_mm |-> <<20, 100>>, speed_factor |-> <<100, 100>>]
          [] m = "PLA+" -> [rec_layer_mm |-> <<20, 100>>, speed_factor |-> <<95, 100>>]
          [] m = "PETG" -> [rec_layer_mm |-> <<24, 100>>, speed_factor |-> <<85, 100>>]
          [] m = "Nylon" -> [rec_layer_mm |-> <<24, 100>>, speed_factor |-> <<80, 100>>]
          [] m = "CFNylon" -> [rec_layer_mm |-> <<28, 100>>, speed_factor |-> <<70, 100>>]]

Machines == {"BLENDED", "FlashForge Adventurer 5M Pro", "Anycubic Kobra S1"}

MACHINE_PROFILES ==
    [k \in Machines |->
        CASE k = "BLENDED" ->
               [label |-> "Blended (FF 5M Pro + Kobra S1)",
                cm3_per_hr |-> <<460, 10>>, hourly_rate |-> <<80, 10>>]
          [] k = "FlashForge Adventurer 5M Pro" ->
               [label |-> "FlashForge Adventurer 5M Pro",
                cm3_per_hr |-> <<500, 10>>, hourly_rate |-> <<80, 10>>]
          [] k = "Anycubic Kobra S1" ->
               [label |-> "Anycubic Kobra S1",
                cm3_per_hr |-> <<420, 10>>, hourly_rate |-> <<80, 10>>]]

\* An optional argument: <<>> is Python's None (or an absent form field),
\* <<v>> the value v.
None == <<>>

Some(v) == <<v>>

DEFAULTS ==
    [material |-> "PLA", layer_height_mm |-> <<20, 100>>, infill_pct |-> 20,
     machine |-> "BLENDED"]

BASE_FEE == FInt(5)

POSTPROCESS_FEE == FInt(0)

\* `x or default` for a layer height given in hundredths of a millimetre:
\* None and the falsy value 0 take the default; the float of the rest.
OrDefaultLayer(x, default) ==
    Decimal(IF x = None \/ x[1] = 0 THEN default ELSE <<x[1], 100>>)

\* `x or default` for an integer: None and the falsy value 0 take the default.
OrDefaultNum(x, default) == IF x = None THEN default ELSE IF x[1] = 0 THEN default ELSE x[1]

\* `x or default` for a string: None and the falsy value "" take the default.
OrDefaultStr(x, default) == IF x = None THEN default ELSE IF x[1] = "" THEN default ELSE x[1]

\* ---------------------------------------------------- quote engine

\* Mutant: an unknown key falls back to the first printer, not to BLENDED.
MachineProfile_wrong_fallback(machine) ==
    IF machine \in Machines THEN MACHINE_PROFILES[machine]
    ELSE MACHINE_PROFILES["FlashForge Adventurer 5M Pro"]

\* MACHINE_PROFILES.get(machine, MACHINE_PROFILES["BLENDED"])
MachineProfile(machine) ==
    IF machine \in Machines THEN MACHINE_PROFILES[machine] ELSE MACHINE_PROFILES["BLENDED"]

\* cm3_per_hr = float(mprof["cm3_per_hr"]) and hourly_rate =
\* float(mprof.get("hourly_rate", HOURLY_RATE_FALLBACK)) of the profile
\* chosen; every profile has both keys.
MachineFigures(mprof) ==
    [label |-> mprof.label, cm3_per_hr |-> Decimal(mprof.cm3_per_hr),
     hourly_rate |-> Decimal(mprof.hourly_rate)]

\* DENSITY_G_CM3.get / MATERIAL_RATES.get / MATERIAL_PRESETS.get with PLA's entry
\* as the default.
MaterialKey(material) == IF material \in Materials THEN material ELSE "PLA"

MaterialProfile(material) ==
    [dens |-> Decimal(DENSITY_G_CM3[MaterialKey(material)]),
     rate |-> Decimal(MATERIAL_RATES[MaterialKey(material)]),
     speed_factor |-> Decimal(MATERIAL_PRESETS[MaterialKey(material)].speed_factor)]

\* The float literals of _estimate_time_hours and run_quote_engine.
F_0_20 == Float(20, 100)

F_0_10 == Float(10, 100)

F_0_6 == Float(6, 10)

F_1_5 == Float(15, 10)

F_1_0 == FInt(1)

F_100_0 == FInt(100)

F_0_3 == Float(3, 10)

F_1e_6 == Float(1, 1000000)

F_0_08 == Float(8, 100)

F_1000_0 == FInt(1000)

\* max(0.6, min(0.20 / max(layer_mm, 0.10), 1.5))
LayerRel(layer_mm) == FMax(F_0_6, FMin(FDiv(F_0_20, FMax(layer_mm, F_0_10)), F_1_5))

\* 1.0 + (infill_pct / 100.0) * 0.3
InfillMult(infill_pct) == FAdd(F_1_0, FMul(FDiv(FInt(infill_pct), F_100_0), F_0_3))

\* max(1e-6, machine_speed_cm3_hr * material_speed_factor / layer_rel)
EffectiveSpeed(layer_mm, machine_speed_cm3_hr, material_speed_factor) ==
    FMax(F_1e_6, FDiv(FMul(machine_speed_cm3_hr, material_speed_factor), LayerRel(layer_mm)))

\* Mutant: the 0.08 h floor is left out.
_estimate_time_hours_no_floor(volume_cm3, layer_mm, infill_pct, machine_speed_cm3_hr, material_speed_factor) ==
    FMul(FDiv(volume_cm3, EffectiveSpeed(layer_mm, machine_speed_cm3_hr, material_speed_factor)),
         InfillMult(infill_pct))

\* _estimate_time_hours: all arguments but infill_pct (an integer) are floats.
_estimate_time_hours(volume_cm3, layer_mm, infill_pct, machine_speed_cm3_hr, material_speed_factor) ==
    FMax(F_0_08,
         FMul(FDiv(volume_cm3,
                   EffectiveSpeed(layer_mm, machine_speed_cm3_hr, material_speed_factor)),
              InfillMult(infill_pct)))

\* _price: round(BASE_FEE + grams * rate_per_g + time_hr * hourly_rate
\* + POSTPROCESS_FEE, 2), in cents; the arguments are floats.
_price(rate_per_g, grams, time_hr, hourly_rate) ==
    RoundTo(FAdd(FAdd(FAdd(BASE_FEE, FMul(grams, rate_per_g)),
                      FMul(time_hr, hourly_rate)),
                 POSTPROCESS_FEE),
            100)

ValueError(msg, parsed) == [kind |-> "ValueError", msg |-> msg, parsed |-> parsed]

OtherError(msg, parsed) == [kind |-> "Exception", msg |-> msg, parsed |-> parsed]

\* The keys of the dict run_quote_engine returns.
QuoteKeys ==
    {"filename", "material", "layer_height_mm", "infill_pct", "volume_cm3", "surface_cm2",
     "bbox_mm", "triangles", "est_material_g", "est_print_time_hr", "price_usd",
     "materials", "pricing_model", "debug"}

\* volume_cm3 = float(mesh.volume) / 1000.0, est_g = volume_cm3 * dens and
\* est_time = _estimate_time_hours(...), the floats the quote is made of.
Estimates(volume_cm3, layer_mm, infill_pct, mprof, mat) ==
    [volume_cm3 |-> volume_cm3,
     est_g |-> FMul(volume_cm3, mat.dens),
     est_time |-> _estimate_time_hours(volume_cm3, layer_mm, infill_pct,
                                       mprof.cm3_per_hr, mat.speed_factor)]

\* The dict run_quote_engine returns.  Of it the record carries the request
\* echo, the three estimates and the price, pricing_model and debug.calc
\* (flattened); surface_cm2, bbox_mm, triangles and the constant materials
\* table are not carried.
QuoteDict(name, material, layer_mm, infill_pct, machine, mprof, mat, est) ==
    [kind |-> "quote",
     parsed |-> TRUE,
     filename |-> name,
     material |-> material,
     layer_height_mm |-> RoundTo(layer_mm, 1000),
     infill_pct |-> infill_pct,
     volume_cm3 |-> RoundTo(est.volume_cm3, 100),
     est_material_g |-> RoundTo(est.est_g, 10),
     est_print_time_hr |-> RoundTo(est.est_time, 100),
     price_usd |-> _price(mat.rate, est.est_g, est.est_time, mprof.hourly_rate),
     hourly_rate |-> mprof.hourly_rate,
     machine_cm3_per_hr |-> mprof.cm3_per_hr,
     machine_label |-> mprof.label,
     machine_key |-> machine,
     layer_rel |-> LayerRel(layer_mm),
     infill_mult |-> InfillMult(infill_pct),
     material_speed_factor |-> mat.speed_factor]

\* The quote for the profiles mprof and mat looked up.
QuoteWith(name, material, layer_mm, infill_pct, machine, mprof, mat, volume_mm3) ==
    QuoteDict(name, material, layer_mm, infill_pct, machine, mprof, mat,
              Estimates(FDiv(FInt(volume_mm3), F_1000_0), layer_mm, infill_pct, mprof, mat))

\* The quote run_quote_engine assembles once the mesh is loaded and cleaned;
\* layer_mm is a float, volume_mm3 the integer value of mesh.volume.
Quote(name, material, layer_mm, infill_pct, machine, volume_mm3) ==
    QuoteWith(name, material, layer_mm, infill_pct, machine,
              MachineFigures(MachineProfile(machine)), MaterialProfile(material), volume_mm3)

\* "part", the name of a file object that has none
Part == <<112, 97, 114, 116>>

\* [".stl", ".obj"]
EngineExts == {<<46, 115, 116, 108>>, <<46, 111, 98, 106>>}

\* The extension run_quote_engine goes by: os.path.splitext(name)[1].lower()
\* of file_obj.name, "part" when the object has no name.
EngineExt(name) == LowerSeq(SplitExt(IF name = NoName THEN Part ELSE name))

\* run_quote_engine(file_obj, material, layer_height_mm, infill_pct, machine).
\* call.name is file_obj.name (NoName when the object has none), call.mesh is
\* what trimesh makes of the bytes: kind "rejected" (load raises a
\* ValueError), "unparsable" (load raises another exception), "empty"
\* (is_empty on load), "vanishes" (no face left after the cleanup, so
\* mesh.extents is None) or "solid" with its signed volume in mm^3.
run_quote_engine(call) ==
    IF EngineExt(call.name) \notin EngineExts
    THEN ValueError("Unsupported file type. Upload STL or OBJ.", FALSE)
    ELSE IF call.mesh.kind = "rejected"
    THEN ValueError("load", TRUE)
    ELSE IF call.mesh.kind = "unparsable"
    THEN OtherError("load", TRUE)
    ELSE IF call.mesh.kind = "empty"
    THEN ValueError("Mesh appears empty or invalid.", TRUE)
    ELSE IF call.mesh.kind = "vanishes"
    THEN OtherError("'NoneType' object has no attribute 'tolist'", TRUE)
    ELSE Quote(IF call.name = NoName THEN Part ELSE call.name,
               OrDefaultStr(call.material, DEFAULTS.material),
               OrDefaultLayer(call.layer_height_mm, DEFAULTS.layer_height_mm),
               OrDefaultNum(call.infill_pct, DEFAULTS.infill_pct),
               OrDefaultStr(call.machine, DEFAULTS.machine),
               call.mesh.volume)

\* ------------------------------------------------------- input sets

\* Signed mesh volumes in mm^3: inside-out solids, a flat (zero-volume) face
\* set, a speck, and ordinary parts, among them volumes whose cm^3 (5 mm^3)
\* or mass (3750 mm^3 of PLA: 4.65 g) falls on a decimal tie.
Volumes == {-(MaxVolCm3 * 1000 - 700), 0, 5, 3750, 13050, MaxVolCm3 * 1000 - 700}

Meshes ==
    {[kind |-> k, volume |-> 0] : k \in {"rejected", "unparsable", "empty", "vanishes"}}
    \cup {[kind |-> "solid", volume |-> v] : v \in Volumes}

\* a.stl, \u00c9.OBJ (capital E acute), a.PNG, a.\u00c0BJ (capital A grave), a,
\* .stl, d/.stl, and no name
EngineNames ==
    {<<97, 46, 115, 116, 108>>, <<201, 46, 79, 66, 74>>, <<97, 46, 80, 78, 71>>,
     <<97, 46, 192, 66, 74>>, <<97>>, <<46, 115, 116, 108>>,
     <<100, 47, 46, 115, 116, 108>>, NoName}

EngineCalls ==
    [kind : {"call"},
     name : EngineNames,
     material : {Some(m) : m \in {"PLA", "PETG", "CFNylon", "ABS", ""}} \cup {None},
     layer_height_mm : {Some(l) : l \in {5, 25, 60}} \cup {None},
     infill_pct : {Some(i) : i \in {0, 50, 100}} \cup {None},
     machine : {Some(k) : k \in {"BLENDED", "Anycubic Kobra S1", "Prusa MK4"}} \cup {None},
     mesh : Meshes]

NoResult == [kind |-> "none"]

DefaultEnv == [tiers |-> <<1, 10, 25, 50, 100>>, discounts |-> <<0, 5, 8, 12, 15>>]

\* ------------------------------------------------------- serializer

\* ("stl", "obj")
ALLOWED_EXTS == {<<115, 116, 108>>, <<111, 98, 106>>}

MAX_FILE_MB == 50

\* serializers.FileField(required=True): the error the field itself raises
\* before validate_file runs ("" when none): no file part, no file name, or an
\* empty file.
FileFieldError(file) ==
    IF file = None THEN "No file was submitted."
    ELSE IF file[1].name = <<>> THEN "No filename could be determined."
    ELSE IF file[1].size = 0 THEN "The submitted file is empty."
    ELSE ""

\* Mutant: the extension is taken after the first dot up to the next one
\* (name.split(".")[1]) instead of after the last dot.
validate_file_first_dot(f) ==
    LET name == f.name
        first == CHOOSE i \in Dots(name) : \A j \in Dots(name) : i <= j
        rest == SubSeq(name, first + 1, Len(name))
        ext == IF Dots(name) = {} THEN <<>>
               ELSE IF Dots(rest) = {} THEN LowerSeq(rest)
               ELSE LowerSeq(SubSeq(rest, 1, (CHOOSE i \in Dots(rest) :
                                                 \A j \in Dots(rest) : i <= j) - 1))
    IN  IF ext \notin ALLOWED_EXTS THEN "Unsupported file type. Upload STL or OBJ."
        ELSE IF f.size # 0 /\ f.size > MAX_FILE_MB * 1024 * 1024
        THEN "File too large (max 50MB)."
        ELSE ""

\* QuoteUploadSerializer.validate_file: the ValidationError message, "" when
\* the file is accepted.
validate_file(f) ==
    LET name == f.name
        ext == IF Dots(name) # {} THEN LowerSeq(RSplitLast(name)) ELSE <<>>
    IN  IF ext \notin ALLOWED_EXTS THEN "Unsupported file type. Upload STL or OBJ."
        ELSE IF f.size # 0 /\ f.size > MAX_FILE_MB * 1024 * 1024
        THEN "File too large (max 50MB)."
        ELSE ""

\* serializer.errors: the fields that failed, each with its messages; here
\* the set of failing field names.
SerializerErrors(form) ==
    (IF FileFieldError(form.file) # "" THEN {"file"}
     ELSE IF validate_file(form.file[1]) # "" THEN {"file"} ELSE {})
    \cup (IF form.material # None /\ form.material[1] \notin Materials
          THEN {"material"} ELSE {})
    \cup (IF /\ form.layer_height_mm # None
             /\ (form.layer_height_mm[1] < 5 \/ form.layer_height_mm[1] > 60)
          THEN {"layer_height_mm"} ELSE {})
    \cup (IF /\ form.infill_pct # None
             /\ (form.infill_pct[1] < 0 \/ form.infill_pct[1] > 100)
          THEN {"infill_pct"} ELSE {})

\* serializer.validated_data: absent optional fields take the declared defaults.
ValidatedData(form) ==
    [file |-> form.file[1],
     material |-> IF form.material = None THEN "PLA" ELSE form.material[1],
     layer_height_mm |-> IF form.layer_height_mm = None THEN 20 ELSE form.layer_height_mm[1],
     infill_pct |-> IF form.infill_pct = None THEN 20 ELSE form.infill_pct[1]]

\* ------------------------------------------------------------ views

NoCall == [kind |-> "none"]

\* The text of a DRF error response's `detail`: f"Failed to parse mesh: {e}".
FailedToParse(msg) == "Failed to parse mesh: " \o msg

Response(status, body, keys, detail, result, tiers) ==
    [status |-> status, body |-> body, keys |-> keys, detail |-> detail,
     result |-> result, tiers |-> tiers]

\* "/tmp/tmp"
TmpStem == <<47, 116, 109, 112, 47, 116, 109, 112>>

\* ".stl"
DotStl == <<46, 115, 116, 108>>

\* The path of the NamedTemporaryFile: the temporary directory, a dot-free
\* random stem, and os.path.splitext(upload.name)[1].lower() or ".stl".
TempName(upload_name) ==
    LET ext == LowerSeq(SplitExt(upload_name))
    IN  TmpStem \o (IF ext = <<>> THEN DotStl ELSE ext)

\* Mutant: the length check is left out.
_tiers_from_env_unchecked(e) == [tiers |-> e.tiers, discounts |-> e.discounts]

\* _tiers_from_env: the two lists as configured, the discounts replaced by
\* zeros when the lengths differ.  Discounts are in percent.
_tiers_from_env(e) ==
    IF Len(e.discounts) # Len(e.tiers)
    THEN [tiers |-> e.tiers, discounts |-> [i \in 1..Len(e.tiers) |-> 0]]
    ELSE [tiers |-> e.tiers, discounts |-> e.discounts]

\* Mutant: the total is taken from the unrounded per-unit price.
TierRow_unrounded_total(base_unit, qty, disc) ==
    LET unrounded == FMul(Float(base_unit, 100), FSub(FInt(1), Float(disc, 100)))
    IN  [qty |-> qty, discount |-> disc,
         per_unit |-> RoundTo(unrounded, 100),
         total |-> RoundTo(FMul(unrounded, FInt(qty)), 100)]

\* The row for a per_unit already rounded: total = round(per_unit * qty, 2).
TierRowOf(qty, disc, per_unit) ==
    [qty |-> qty, discount |-> disc, per_unit |-> per_unit,
     total |-> RoundTo(FMul(Float(per_unit, 100), FInt(qty)), 100)]

\* One row of the batch table: per_unit = round(base_unit * (1 - disc), 2),
\* total = round(per_unit * qty, 2).  base_unit is float(single["price_usd"])
\* given in cents, disc the float of the configured discount given in
\* percent; per_unit and total are in cents.
TierRow(base_unit, qty, disc) ==
    TierRowOf(qty, disc,
              RoundTo(FMul(Float(base_unit, 100), FSub(FInt(1), Float(disc, 100))), 100))

\* The rows built by zip(tiers, discounts).
TierRows(base_unit, tiers, discounts) ==
    [i \in 1..Min(Len(tiers), Len(discounts)) |-> TierRow(base_unit, tiers[i], discounts[i])]

\* tiers, discounts = _tiers_from_env(); rows over zip(tiers, discounts)
BatchRows(base_unit, te) == TierRows(base_unit, te.tiers, te.discounts)

\* The arguments the views pass to run_quote_engine: the file opened from
\* the temporary path, the validated parameters, no machine.
EngineCall(v, mesh) ==
    [kind |-> "call", name |-> TempName(v.file.name), material |-> Some(v.material),
     layer_height_mm |-> Some(v.layer_height_mm),
     infill_pct |-> Some(v.infill_pct), machine |-> None, mesh |-> mesh]

\* if orig_name: result["filename"] = os.path.basename(orig_name)
WithFilename(out, orig_name) ==
    IF orig_name = <<>> THEN out ELSE [out EXCEPT !.filename = Basename(orig_name)]

\* What the try/except/finally of the two views makes of the engine's
\* outcome `out` for engine call `call`.  The finally clause removes the
\* temporary file on every path; when os.remove raises (removeFails) the
\* error is swallowed and the file stays.
ViewResult(endpoint, v, e, call, out, removeFails) ==
    [call |-> call,
     out |-> out,
     tmp |-> removeFails,
     resp |->
        IF out.kind = "ValueError"
        THEN Response(400, "detail", {"detail"}, out.msg, NoResult, <<>>)
        ELSE IF out.kind = "Exception"
        THEN Response(400, "detail", {"detail"}, FailedToParse(out.msg), NoResult, <<>>)
        ELSE IF endpoint = "quote"
        THEN Response(200, "quote", QuoteKeys, "",
                      WithFilename(out, v.file.name), <<>>)
        ELSE Response(200, "batch", {"single", "tiers"}, "",
                      WithFilename(out, v.file.name),
                      BatchRows(out.price_usd, _tiers_from_env(e)))]

\* The try block of the two views once the upload is on disk.
ViewTry(endpoint, v, e, call, removeFails) ==
    ViewResult(endpoint, v, e, call, run_quote_engine(call), removeFails)

\* QuoteAPIView.post / BatchQuoteAPIView.post as a whole: the response, the
\* engine call made (if any) and whether the temporary copy of the upload is
\* still on disk when the handler is left.  writeFails: tmp.write (or
\* upload.chunks()) raises while the upload is being copied; removeFails:
\* os.remove raises in the finally clause.
post(endpoint, form, writeFails, removeFails, mesh, e) ==
    IF SerializerErrors(form) # {}
    THEN [resp |-> Response(400, "field_errors", SerializerErrors(form), "", NoResult, <<>>),
          call |-> NoCall, out |-> NoResult, tmp |-> FALSE]
    ELSE IF writeFails
    THEN \* the exception leaves post() before the try/finally is entered
         [resp |-> Response(500, "server_error", {}, "", NoResult, <<>>),
          call |-> NoCall, out |-> NoResult, tmp |-> TRUE]
    ELSE ViewTry(endpoint, ValidatedData(form), e, EngineCall(ValidatedData(form), mesh),
                 removeFails)

\* ------------------------------------------------------- HTTP inputs

\* a.stl, \u00c9.OBJ (capital E acute), a.png, a.PNG, a.\u00c0BJ (capital A
\* grave), a, a.stl.png and .obj
UploadNames ==
    {<<97, 46, 115, 116, 108>>, <<201, 46, 79, 66, 74>>, <<97, 46, 112, 110, 103>>,
     <<97, 46, 80, 78, 71>>, <<97, 46, 192, 66, 74>>, <<97>>,
     <<97, 46, 115, 116, 108, 46, 112, 110, 103>>, <<46, 111, 98, 106>>}

UploadSizes == {0, MAX_FILE_MB * 1024 * 1024, MAX_FILE_MB * 1024 * 1024 + 1}

Forms ==
    [file : {Some(f) : f \in [name : UploadNames, size : UploadSizes]} \cup {None},
     material : {Some(m) : m \in {"CFNylon", "ABS"}} \cup {None},
     layer_height_mm : {Some(l) : l \in {4, 5, 60, 61}} \cup {None},
     infill_pct : {Some(i) : i \in {-1, 0, 100, 101}} \cup {None}]

\* The comma-separated BATCH_TIERS and DISCOUNTS the process was started
\* with, parsed: the first n tiers and the first m discounts of the
\* defaults continued, for the two longest lengths n and m.
TierAt(i) == IF i <= 5 THEN DefaultEnv.tiers[i] ELSE 100 * (i - 3)

DiscountAt(i) == IF i <= 5 THEN DefaultEnv.discounts[i] ELSE 10 + i

Envs ==
    {[tiers |-> [i \in 1..n |-> TierAt(i)], discounts |-> [i \in 1..m |-> DiscountAt(i)]] :
        n \in (MaxTiers - 1)..MaxTiers, m \in (MaxTiers - 1)..MaxTiers}

\* ------------------------------------------------------ HTTP requests

Init ==
    /\ pc = "idle"
    /\ req = NoResult
    /\ env \in Envs
    /\ tmpExists = FALSE
    /\ engineIn = NoCall
    /\ engineOut = NoResult
    /\ resp = NoResult

\* One request.  The form is the client's; whether copying the upload or
\* removing the copy fails and what the uploaded bytes parse to matter only
\* where the handler gets that far, and are fixed otherwise.
AnyMesh == [kind |-> "empty", volume |-> 0]

Handle(endpoint) ==
    /\ pc = "idle"
    /\ \E form \in Forms, writeFails \in BOOLEAN, removeFails \in BOOLEAN, mesh \in Meshes :
          /\ SerializerErrors(form) # {} => ~writeFails
          /\ (SerializerErrors(form) # {} \/ writeFails) => (mesh = AnyMesh /\ ~removeFails)
          /\ req' = [kind |-> "request", endpoint |-> endpoint, form |-> form]
          /\ \E r \in {post(endpoint, form, writeFails, removeFails, mesh, env)} :
                /\ resp' = r.resp
                /\ engineIn' = r.call
                /\ engineOut' = r.out
                /\ tmpExists' = r.tmp
    /\ pc' = "done"
    /\ UNCHANGED env

\* POST /api/quote
PostQuote ==
    /\ req.kind = "none"
    /\ Handle("quote")

\* POST /api/quote/batch
PostBatch ==
    /\ req.kind = "none"
    /\ Handle("batch")

Next == PostQuote \/ PostBatch

Spec == Init /\ [][Next]_vars

\* ------------------------------------------------ engine called directly

InitEngine ==
    /\ pc = "call"
    /\ req = NoResult
    /\ env = DefaultEnv
    /\ tmpExists = FALSE
    /\ engineIn \in EngineCalls
    /\ engineOut = NoResult
    /\ resp = NoResult

CallEngine ==
    /\ pc = "call"
    /\ engineOut' = run_quote_engine(engineIn)
    /\ pc' = "returned"
    /\ UNCHANGED <<req, env, tmpExists, engineIn, resp>>

NextEngine == CallEngine

SpecEngine == InitEngine /\ [][NextEngine]_vars

\* Both ways into the engine: through the two endpoints, and called directly.
InitAll == Init \/ InitEngine

NextAll == PostQuote \/ PostBatch \/ CallEngine

SpecAll == InitAll /\ [][NextAll]_vars

\* ------------------------------------------------------------ claims

Finished == pc = "done" /\ req.kind = "request"

Returned == pc = "returned"

Answered200 == Finished /\ resp.status = 200

\* C1: every request that wrote a temporary copy of the upload has removed it
\* by the time the request finishes, on every exit path, a failure while the
\* chunks are being written included.
C1_TempFileRemoved == Finished => ~tmpExists

\* C2: every request ends either in HTTP 200 with the full result or in HTTP
\* 400 with a body carrying `detail`; validation failures and engine failures
\* alike give the 400 with `detail`.
C2_Only200Or400Detail ==
    Finished =>
        \/ resp.status = 200 /\ resp.body \in {"quote", "batch"}
        \/ resp.status = 400 /\ "detail" \in resp.keys

\* ext spells word (given in small letters a-z) in letters of either case.
Spells(ext, word) ==
    /\ Len(ext) = Len(word)
    /\ \A i \in 1..Len(word) : ext[i] = word[i] \/ ext[i] = word[i] - 32

\* The text after the last dot of the name spells neither stl nor obj in
\* letters of either case (a name without a dot has no extension).
BadExtension(name) ==
    \/ \A i \in 1..Len(name) : name[i] # Dot
    \/ \E k \in 1..Len(name) :
          /\ name[k] = Dot
          /\ \A j \in (k + 1)..Len(name) : name[j] # Dot
          /\ ~Spells(SubSeq(name, k + 1, Len(name)), <<115, 116, 108>>)
          /\ ~Spells(SubSeq(name, k + 1, Len(name)), <<111, 98, 106>>)

\* run_quote_engine handed the named file with every parameter left out, the
\* bytes being those of a sound solid.
EngineOn(name) ==
    run_quote_engine([kind |-> "call", name |-> name, material |-> None,
                      layer_height_mm |-> None, infill_pct |-> None, machine |-> None,
                      mesh |-> [kind |-> "solid", volume |-> 13050]])

\* C3: an upload whose extension is not stl or obj (in letters of either
\* case) is answered 400 with the engine never called, so nothing is parsed;
\* and run_quote_engine, handed the uploaded file or any file of such a name,
\* raises the unsupported-type ValueError before it reads or loads anything.
C3_BadExtensionNeverParsed ==
    /\ (Finished /\ req.form.file # None /\ BadExtension(req.form.file[1].name)) =>
          /\ resp.status = 400
          /\ engineIn.kind = "none"
          /\ engineOut.kind = "none"
          /\ EngineOn(req.form.file[1].name).kind = "ValueError"
          /\ EngineOn(req.form.file[1].name).msg = "Unsupported file type. Upload STL or OBJ."
          /\ ~EngineOn(req.form.file[1].name).parsed
    /\ (Returned /\ BadExtension(engineIn.name)) =>
          /\ engineOut.kind = "ValueError"
          /\ engineOut.msg = "Unsupported file type. Upload STL or OBJ."
          /\ ~engineOut.parsed

\* An upload named a.\u00c0BJ, of an allowed size and all else valid, was
\* answered 400 by the serializer for its extension alone without the engine
\* being called, and the engine handed that file raises before it parses.
C3_Witness ==
    /\ Finished
    /\ req.form.file # None
    /\ req.form.file[1].name = <<97, 46, 192, 66, 74>>
    /\ BadExtension(req.form.file[1].name)
    /\ FileFieldError(req.form.file) = ""
    /\ req.form.file[1].size <= MAX_FILE_MB * 1024 * 1024
    /\ resp.status = 400
    /\ resp.keys = {"file"}
    /\ engineIn.kind = "none"
    /\ EngineOn(req.form.file[1].name).kind = "ValueError"
    /\ ~EngineOn(req.form.file[1].name).parsed

\* C4: a mesh that after the cleanup has zero volume or no face left never
\* gets a quote: the engine raises and the endpoint answers 400.
C4_NoQuoteForZeroVolume ==
    (/\ Finished
     /\ engineIn.kind # "none"
     /\ \/ engineIn.mesh.kind = "vanishes"
        \/ engineIn.mesh.kind = "solid" /\ engineIn.mesh.volume = 0) =>
        /\ engineOut.kind # "quote"
        /\ resp.status = 400

\* C5: every quote the engine returns has price_usd >= BASE_FEE and a
\* non-negative est_material_g, negative signed volumes included.
C5_PriceAtLeastBaseFee ==
    (Returned /\ engineOut.kind = "quote") =>
        /\ engineOut.price_usd >= RoundTo(BASE_FEE, 100)
        /\ engineOut.est_material_g >= 0

\* C6: every quote's est_print_time_hr, rounded to 2 decimals, is at least
\* 0.08 and never zero, whatever the volume; the effective speed the time is
\* divided by is at least 1e-6.
C6_TimeFloor ==
    (Returned /\ engineOut.kind = "quote") =>
        /\ engineOut.est_print_time_hr >= 8
        /\ engineOut.est_print_time_hr # 0
        /\ ~FLess(EffectiveSpeed(Float(engineOut.layer_height_mm, 1000),
                                 engineOut.machine_cm3_per_hr,
                                 engineOut.material_speed_factor),
                  F_1e_6)

\* The floor decided the time: a zero or negative volume got 0.08 h.
C6_Witness ==
    /\ Returned
    /\ engineOut.kind = "quote"
    /\ engineIn.mesh.volume <= 0
    /\ engineOut.est_print_time_hr = 8

\* C7: the infill multiplier of a quote is 1.0 + 0.3 * infill_pct / 100 of the
\* infill_pct the caller supplied (1.0 at 0, 1.3 at 100), and the quote echoes
\* the supplied infill_pct.
C7_InfillAsSupplied ==
    (Answered200 /\ req.form.infill_pct # None) =>
        /\ resp.result.infill_pct = req.form.infill_pct[1]
        /\ resp.result.infill_mult = InfillMult(req.form.infill_pct[1])
        /\ (req.form.infill_pct[1] = 0 => resp.result.infill_mult = FInt(1))
        /\ (req.form.infill_pct[1] = 100 => resp.result.infill_mult = Float(13, 10))

KnownMachine(call) == call.machine # None /\ call.machine[1] \in Machines

KnownMaterial(call) == call.material # None /\ call.material[1] \in Materials

\* The numbers of a quote that the material and machine profiles decide.
Figures(q) ==
    <<q.est_material_g, q.est_print_time_hr, q.price_usd, q.hourly_rate,
      q.machine_cm3_per_hr, q.material_speed_factor>>

\* C8: no key makes the engine fail; an unknown or absent machine key is
\* quoted with BLENDED's throughput and hourly rate, an unknown material with
\* PLA's rate, density and speed factor, and a known key with its own profile.
C8_UnknownKeysFallBack ==
    Returned =>
        /\ engineOut.kind =
              run_quote_engine([engineIn EXCEPT !.machine = Some("BLENDED"),
                                                !.material = Some("PLA")]).kind
        /\ engineOut.kind = "quote" =>
              /\ ~KnownMachine(engineIn) =>
                    /\ engineOut.machine_cm3_per_hr = Decimal(MACHINE_PROFILES["BLENDED"].cm3_per_hr)
                    /\ engineOut.hourly_rate = Decimal(MACHINE_PROFILES["BLENDED"].hourly_rate)
                    /\ Figures(engineOut) =
                          Figures(run_quote_engine([engineIn EXCEPT !.machine = Some("BLENDED")]))
              /\ ~KnownMaterial(engineIn) =>
                    /\ engineOut.material_speed_factor = Decimal(MATERIAL_PRESETS["PLA"].speed_factor)
                    /\ Figures(engineOut) =
                          Figures(run_quote_engine([engineIn EXCEPT !.material = Some("PLA")]))
              /\ KnownMachine(engineIn) =>
                    /\ engineOut.machine_cm3_per_hr =
                          Decimal(MACHINE_PROFILES[engineIn.machine[1]].cm3_per_hr)
                    /\ engineOut.hourly_rate =
                          Decimal(MACHINE_PROFILES[engineIn.machine[1]].hourly_rate)
              /\ KnownMaterial(engineIn) =>
                    /\ engineOut.material_speed_factor =
                          Decimal(MATERIAL_PRESETS[engineIn.material[1]].speed_factor)
                    /\ engineOut.est_material_g =
                          RoundTo(FMul(FDiv(FInt(engineIn.mesh.volume), F_1000_0),
                                       Decimal(DENSITY_G_CM3[engineIn.material[1]])), 10)

\* A quote was returned for a machine key and a material the tables lack.
C8_Witness ==
    /\ Returned
    /\ engineOut.kind = "quote"
    /\ engineIn.machine = Some("Prusa MK4")
    /\ engineIn.material = Some("ABS")
    /\ engineIn.mesh.volume > 0

BatchAnswered == Answered200 /\ resp.body = "batch"

\* C9: the batch response has exactly one row per configured tier, whatever
\* the lengths of the two configured lists; when the lengths differ every
\* row's discount is 0 and its per_unit is the single-unit price.
C9_OneRowPerTier ==
    BatchAnswered =>
        /\ Len(resp.tiers) = Len(env.tiers)
        /\ \A i \in 1..Len(resp.tiers) : resp.tiers[i].qty = env.tiers[i]
        /\ Len(env.discounts) # Len(env.tiers) =>
              \A i \in 1..Len(resp.tiers) :
                  /\ resp.tiers[i].discount = 0
                  /\ resp.tiers[i].per_unit = resp.result.price_usd

\* A batch was answered under a configuration with more tiers than discounts.
C9_Witness ==
    /\ BatchAnswered
    /\ Len(env.discounts) < Len(env.tiers)
    /\ Len(resp.tiers) = Len(env.tiers)

\* C10: with lists of equal length, row i of the batch table has qty =
\* tiers[i], discount = discounts[i], per_unit = round(base * (1 - discount), 2)
\* and total = round(per_unit * qty, 2) from the rounded per_unit (round being
\* Python's, on the float products); base 10.00 under the
\* default lists gives per-unit 10.00, 9.50, 9.20, 8.80, 8.50 and totals
\* 10.00, 95.00, 230.00, 440.00, 850.00.
C10_TierRowsPairwise ==
    (BatchAnswered /\ Len(env.discounts) = Len(env.tiers)) =>
        /\ Len(resp.tiers) = Len(env.tiers)
        /\ \A i \in 1..Len(resp.tiers) :
              /\ resp.tiers[i].qty = env.tiers[i]
              /\ resp.tiers[i].discount = env.discounts[i]
              /\ resp.tiers[i].per_unit =
                    RoundTo(FMul(Float(resp.result.price_usd, 100),
                                 FSub(FInt(1), Float(env.discounts[i], 100))), 100)
              /\ resp.tiers[i].total =
                    RoundTo(FMul(Float(resp.tiers[i].per_unit, 100), FInt(env.tiers[i])), 100)
        /\ (resp.result.price_usd = 1000 /\ env = DefaultEnv) =>
              /\ [i \in 1..5 |-> resp.tiers[i].per_unit] = <<1000, 950, 920, 880, 850>>
              /\ [i \in 1..5 |-> resp.tiers[i].total] = <<1000, 9500, 23000, 44000, 85000>>

\* A batch was answered for a part priced 10.00 under the default lists.
C10_Witness ==
    /\ BatchAnswered
    /\ env = DefaultEnv
    /\ resp.result.price_usd = 1000
    /\ Len(resp.tiers) = 5

====
